---------------------------- MODULE Spec2Model ----------------------------
(***************************************************************************)
(* urand: a pool of seedable generators behind integer handles.            *)
(*                                                                         *)
(* Two layers are modelled.  The Zig layer (src/src/mod.ts lines 50-97) is *)
(* one pool: an array of MAX_INSTANCES optional generators with create,    *)
(* destroy, nextU64, nextF64 and nextU32Range.  The TypeScript layer       *)
(* (src/unnamed/part_001 lines 256-344) is the registry: the array         *)
(* `instances` of pools, Prng.create, Prng.createAsync and the Prng        *)
(* object's methods.                                                       *)
(*                                                                         *)
(* 64-bit words are sequences of 8 bytes, least significant first, and     *)
(* 32-bit words sequences of 4 bytes, so that no intermediate value        *)
(* exceeds the range of the integers the model checker computes with.      *)
(* An intermediate value that the code binds to a local and reads more     *)
(* than once is the parameter of a local operator, so that its expression  *)
(* is written once.                                                        *)
(***************************************************************************)
EXTENDS Integers, Sequences, FiniteSets, TLC

(***************************************************************************)
(* Wrapping arithmetic on little-endian byte sequences.                    *)
(***************************************************************************)
RECURSIVE Pow2(_)
Pow2(n) == IF n = 0 THEN 1 ELSE 2 * Pow2(n - 1)

RECURSIVE XorBits(_, _, _)
XorBits(a, b, n) ==
    IF n = 0 THEN 0
    ELSE ((a + b) % 2) + 2 * XorBits(a \div 2, b \div 2, n - 1)

\* a function over 1..n as the tuple of its values
Tuple(f) == f \o <<>>

Zero(n) == Tuple([i \in 1..n |-> 0])

\* a ^ b for 4-bit a and b, tabulated: XorNibble[a + 1][b + 1]
XorNibble == Tuple([a \in 1..16 |-> Tuple([b \in 1..16 |-> XorBits(a - 1, b - 1, 4)])])

\* a ^ b for bytes
XorByte(a, b) ==
    16 * XorNibble[(a \div 16) + 1][(b \div 16) + 1] + XorNibble[(a % 16) + 1][(b % 16) + 1]

\* x ^ y
Xor(x, y) == Tuple([i \in 1..Len(x) |-> XorByte(x[i], y[i])])

\* byte j (counted from 0) of x, 0 outside the word
ByteAt(x, j) == IF j >= 0 /\ j < Len(x) THEN x[j + 1] ELSE 0

\* x << k, bits shifted out are lost
Shl(x, k) ==
    LET q == k \div 8
        r == k % 8
    IN  Tuple([i \in 1..Len(x) |->
            ((ByteAt(x, i - 1 - q) * Pow2(r)) % 256)
            + (ByteAt(x, i - 2 - q) \div Pow2(8 - r))])

\* x >> k, logical
Shr(x, k) ==
    LET q == k \div 8
        r == k % 8
    IN  Tuple([i \in 1..Len(x) |->
            (ByteAt(x, i - 1 + q) \div Pow2(r))
            + ((ByteAt(x, i + q) * Pow2(8 - r)) % 256)])

\* math.rotl(u64, x, k) for 0 < k < 64
Rotl(x, k) ==
    LET Or(hi, lo) == Tuple([i \in 1..Len(x) |-> hi[i] + lo[i]])
    IN  Or(Shl(x, k), Shr(x, 8 * Len(x) - k))

RECURSIVE AddFrom(_, _, _, _)
AddFrom(x, y, i, c) ==
    IF i > Len(x) THEN <<>>
    ELSE LET Carry(s) == <<s % 256>> \o AddFrom(x, y, i + 1, s \div 256)
         IN  Carry(x[i] + y[i] + c)

\* x +% y
Add(x, y) == AddFrom(x, y, 1, 0)

\* bitwise complement
Not(x) == Tuple([i \in 1..Len(x) |-> 255 - x[i]])

\* the word 1 of the width of x
One(x) == Tuple([i \in 1..Len(x) |-> IF i = 1 THEN 1 ELSE 0])

\* -%x
Neg(x) == Add(Not(x), One(x))

\* x -% y
Sub(x, y) == Add(x, Neg(y))

RECURSIVE ColumnSum(_, _, _, _)
ColumnSum(x, y, k, i) ==
    IF i > k THEN 0
    ELSE x[i] * y[k + 1 - i] + ColumnSum(x, y, k, i + 1)

RECURSIVE MulFrom(_, _, _, _)
MulFrom(x, y, k, c) ==
    IF k > Len(x) THEN <<>>
    ELSE LET Carry(s) == <<s % 256>> \o MulFrom(x, y, k + 1, s \div 256)
         IN  Carry(ColumnSum(x, y, k, 1) + c)

\* x *% y, both of the same width
Mul(x, y) == MulFrom(x, y, 1, 0)

RECURSIVE LessFrom(_, _, _)
LessFrom(x, y, i) ==
    IF i = 0 THEN FALSE
    ELSE IF x[i] # y[i] THEN x[i] < y[i]
    ELSE LessFrom(x, y, i - 1)

\* x < y, unsigned
Less(x, y) == LessFrom(x, y, Len(x))

\* x <= y, unsigned
LessEq(x, y) == ~Less(y, x)

\* @truncate to the low n bytes / zero extension to n bytes
Trunc(x, n) == Tuple([i \in 1..n |-> x[i]])
Extend(x, n) == Tuple([i \in 1..n |-> ByteAt(x, i - 1)])

\* the high n bytes of x
High(x, n) == Tuple([i \in 1..n |-> x[Len(x) - n + i]])

RECURSIVE ClzFrom(_, _)
ClzFrom(x, i) ==
    IF i = 0 THEN 0
    ELSE IF x[i] = 0 THEN 8 + ClzFrom(x, i - 1)
    ELSE CHOOSE n \in 0..7 : Pow2(7 - n) <= x[i] /\ x[i] < Pow2(8 - n)

\* @clz(x)
Clz(x) == ClzFrom(x, Len(x))

RECURSIVE FromNat(_, _)
FromNat(v, n) == IF n = 0 THEN <<>> ELSE <<v % 256>> \o FromNat(v \div 256, n - 1)

\* the n-byte two's complement word of the integer v
FromInt(v, n) == IF v >= 0 THEN FromNat(v, n) ELSE Neg(FromNat(-v, n))

(***************************************************************************)
(* std.Random.DefaultPrng, the generator a slot holds (src/src/mod.ts line *)
(* 54), as the Zig standard library defines it: Xoshiro256 seeded through  *)
(* SplitMix64.  A generator state is the tuple <<s0, s1, s2, s3>> of       *)
(* 64-bit words.  Every operation returns [ret, st]: the value and the     *)
(* state the generator is left in.                                         *)
(***************************************************************************)
SplitMixGamma == <<21, 124, 74, 127, 185, 121, 55, 158>>   \* 0x9e3779b97f4a7c15
SplitMixMulA == <<185, 229, 228, 28, 109, 71, 88, 191>>    \* 0xbf58476d1ce4e5b9
SplitMixMulB == <<235, 17, 49, 19, 187, 73, 208, 148>>     \* 0x94d049bb133111eb

\* z ^ (z >> k)
XorShr(z, k) == Xor(z, Shr(z, k))

\* SplitMix64.next: s +%= gamma, then the output mix of the new s
SplitMix64_next(s) ==
    LET Mix(s1) ==
          [ret |-> XorShr(Mul(XorShr(Mul(XorShr(s1, 30), SplitMixMulA), 27),
                              SplitMixMulB), 31),
           st  |-> s1]
    IN  Mix(Add(s, SplitMixGamma))

\* Xoshiro256.seed: n successive SplitMix64 outputs
RECURSIVE Xoshiro256_seed(_, _)
Xoshiro256_seed(s, n) ==
    IF n = 0 THEN <<>>
    ELSE LET Rest(g) == <<g.ret>> \o Xoshiro256_seed(g.st, n - 1)
         IN  Rest(SplitMix64_next(s))

\* DefaultPrng.init(s): the four state words are four successive outputs
DefaultPrng_init(s) == Xoshiro256_seed(s, 4)

\* Xoshiro256.next
Xoshiro256_next(s) ==
    LET Shuffle(a2, a3) ==
          <<Xor(s[1], a3), Xor(s[2], a2), Xor(a2, Shl(s[2], 17)), Rotl(a3, 45)>>
    IN  [ret |-> Add(Rotl(Add(s[1], s[4]), 23), s[1]),
         st  |-> Shuffle(Xor(s[3], s[1]), Xor(s[4], s[2]))]

\* random().int(u64)
Random_int_u64(s) == Xoshiro256_next(s)

\* random().int(u32): the low four bytes of one generated word
Random_int_u32(s) ==
    LET Low(n) == [ret |-> Trunc(n.ret, 4), st |-> n.st]
    IN  Low(Xoshiro256_next(s))

\* the rejection loops of the library are cut after this many further words
MaxRedraws == 4

RECURSIVE ModFrom(_, _, _, _)
ModFrom(x, n, i, r) ==
    IF i = 0 \/ Len(r) = 0 THEN r
    ELSE LET bit == (x[((i - 1) \div 8) + 1] \div Pow2((i - 1) % 8)) % 2
             Reduce(r2) == IF Less(r2, n) THEN r2 ELSE Sub(r2, n)
         IN  ModFrom(x, n, i - 1, Reduce(Add(Shl(r, 1), FromNat(bit, Len(r)))))

\* x % n on 32-bit words, n # 0 (binary long division in 64 bits)
Mod32(x, n) == Trunc(ModFrom(x, Extend(n, 8), 32, Zero(8)), 4)

MaxU32 == <<255, 255, 255, 255>>

\* the rejection threshold of uintLessThan: (2^32 - less_than) % less_than
LemireThreshold(less_than) ==
    LET Second(t1) == IF Less(t1, less_than) THEN t1 ELSE Mod32(t1, less_than)
        First(t0)  == IF Less(t0, less_than) THEN t0 ELSE Second(Sub(t0, less_than))
    IN  First(Neg(less_than))

RECURSIVE LemireLoop(_, _, _, _)
LemireLoop(s, less_than, t, fuel) ==
    LET Test(m, st) ==
          IF Less(Trunc(m, 4), t) /\ fuel > 0
          THEN LemireLoop(st, less_than, t, fuel - 1)
          ELSE [ret |-> High(m, 4), st |-> st]
        Draw(x) == Test(Mul(Extend(x.ret, 8), Extend(less_than, 8)), x.st)
    IN  Draw(Random_int_u32(s))

\* random().uintLessThan(u32, less_than), 0 < less_than
Random_uintLessThan(s, less_than) ==
    LET Redraw(m, st, t) ==
          IF Less(Trunc(m, 4), t)
          THEN LemireLoop(st, less_than, t, MaxRedraws)
          ELSE [ret |-> High(m, 4), st |-> st]
        Test(m, st) ==
          IF Less(Trunc(m, 4), less_than)
          THEN Redraw(m, st, LemireThreshold(less_than))
          ELSE [ret |-> High(m, 4), st |-> st]
        Draw(x) == Test(Mul(Extend(x.ret, 8), Extend(less_than, 8)), x.st)
    IN  Draw(Random_int_u32(s))

\* uintAtMost with the bound of uintLessThan one too high
Random_uintAtMost_BoundTooHigh(s, at_most) ==
    IF at_most = MaxU32 THEN Random_int_u32(s)
    ELSE Random_uintLessThan(s, Add(Add(at_most, One(at_most)), One(at_most)))

\* random().uintAtMost(u32, at_most)
Random_uintAtMost(s, at_most) ==
    IF at_most = MaxU32 THEN Random_int_u32(s)
    ELSE Random_uintLessThan(s, Add(at_most, One(at_most)))

\* intRangeAtMost without the offset: the value drawn below the span is returned
Random_intRangeAtMost_NoOffset(s, at_least, at_most) ==
    Random_uintAtMost(s, Sub(at_most, at_least))

\* random().intRangeAtMost(u32, at_least, at_most) past its assertion
Random_intRangeAtMost(s, at_least, at_most) ==
    LET Shift(u) == [ret |-> Add(u.ret, at_least), st |-> u.st]
    IN  Shift(Random_uintAtMost(s, Sub(at_most, at_least)))

RECURSIVE FloatLz(_, _, _)
FloatLz(s, lz, fuel) ==
    LET Count(addl, st) ==
          IF addl # 64 \/ fuel = 0 THEN [ret |-> lz + addl, st |-> st]
          ELSE IF lz + addl >= 1022 THEN [ret |-> 1022, st |-> st]
          ELSE FloatLz(st, lz + addl, fuel - 1)
        Draw(n) == Count(Clz(n.ret), n.st)
    IN  Draw(Random_int_u64(s))

\* float with the exponent bias 1023: results in [1, 2)
Random_float_f64_BiasedByOne(s) ==
    LET Mantissa(w) == Tuple([i \in 1..8 |-> IF i = 8 THEN 0
                                             ELSE IF i = 7 THEN w[i] % 16
                                             ELSE w[i]])
        Pack(w, lz) == [ret |-> Add(Shl(FromNat(1023 - lz.ret, 8), 52), Mantissa(w)),
                        st  |-> lz.st]
        Lz(w, st, clz) == Pack(w, IF clz >= 12 THEN FloatLz(st, 12, MaxRedraws)
                                  ELSE [ret |-> clz, st |-> st])
        Draw(n) == Lz(n.ret, n.st, Clz(n.ret))
    IN  Draw(Random_int_u64(s))

\* random().float(f64): the IEEE-754 bits of the result.  52 bits of one
\* generated word are the mantissa, its leading zeros (continued into
\* further words when all 12 leading bits are zero) the exponent.
Random_float_f64(s) ==
    LET Mantissa(w) == Tuple([i \in 1..8 |-> IF i = 8 THEN 0
                                             ELSE IF i = 7 THEN w[i] % 16
                                             ELSE w[i]])
        Pack(w, lz) == [ret |-> Add(Shl(FromNat(1022 - lz.ret, 8), 52), Mantissa(w)),
                        st  |-> lz.st]
        Lz(w, st, clz) == Pack(w, IF clz >= 12 THEN FloatLz(st, 12, MaxRedraws)
                                  ELSE [ret |-> clz, st |-> st])
        Draw(n) == Lz(n.ret, n.st, Clz(n.ret))
    IN  Draw(Random_int_u64(s))

(***************************************************************************)
(* The Zig pool (src/src/mod.ts lines 52-97).  A pool is the array         *)
(* `instances` of one WebAssembly instance: a function from 0..slots-1 to  *)
(* a generator state or NULL.  Every operation returns the value it        *)
(* returns and the array it leaves behind.                                 *)
(***************************************************************************)
MAX_INSTANCES == 256

\* slots per pool in the scaled-down specification
PoolSlots == 2

\* null of ?std.Random.DefaultPrng
NULL == <<>>

\* the seeds callers pass: the two of Spec and DrawSpec, and 0, 1, 2, ... as
\* in the tests that fill pools
Seeds == {-1, 42}
TestSeeds == 0..(2 * MAX_INSTANCES - 1)
SeedWords == {FromInt(n, 8) : n \in Seeds \cup TestSeeds}

VARIABLES
    slots,       \* MAX_INSTANCES of the build under check
    instances,   \* part_001 `instances`: the sequence of pools, in creation order
    prngs,       \* every Prng object constructed so far, in construction order
    tasks,       \* every createAsync call that had to instantiate a pool
    last,        \* the operation that was executed last and its outcome
    staleUse     \* a method was called on a Prng after destroy() on it

vars == <<slots, instances, prngs, tasks, last, staleUse>>

\* [_]?std.Random.DefaultPrng{null} ** MAX_INSTANCES
EmptyPool == [i \in 0..(slots - 1) |-> NULL]

FreeSlots(pool) == {i \in DOMAIN pool : pool[i] = NULL}
Occupied(pool) == {i \in DOMAIN pool : pool[i] # NULL}
IsFull(pool) == FreeSlots(pool) = {}

\* the first i of the loop `for (0..MAX_INSTANCES)` with instances[i] == null
FirstFree(pool) == CHOOSE i \in FreeSlots(pool) : \A j \in FreeSlots(pool) : i <= j

\* std.Random.DefaultPrng.init(s), computed once for the seeds in use
SeedTable == [s \in SeedWords |-> DefaultPrng_init(s)] @@ <<>>
Seeded(s) == IF s \in SeedWords THEN SeedTable[s] ELSE DefaultPrng_init(s)

\* create with the store moved out of the loop: a full array gets the new
\* generator in slot 0 and -1 is returned all the same
create_StoresWhenFull(pool, s) ==
    LET Put(i) == [ret |-> i, pool |-> [pool EXCEPT ![i] = Seeded(s)]]
    IN  IF FreeSlots(pool) # {} THEN Put(FirstFree(pool))
        ELSE [ret |-> -1, pool |-> [pool EXCEPT ![0] = Seeded(s)]]

\* create with the loop `for (0..MAX_INSTANCES - 1)`: the last slot is never used
create_SkipsLastSlot(pool, s) ==
    LET Put(i) == [ret |-> i, pool |-> [pool EXCEPT ![i] = Seeded(s)]]
    IN  IF FreeSlots(pool) \ {slots - 1} # {} THEN Put(FirstFree(pool))
        ELSE [ret |-> -1, pool |-> pool]

\* create that takes the highest empty slot
create_TakesHighestFree(pool, s) ==
    LET Put(i) == [ret |-> i, pool |-> [pool EXCEPT ![i] = Seeded(s)]]
        Highest(free) == CHOOSE i \in free : \A j \in free : j <= i
    IN  IF FreeSlots(pool) # {} THEN Put(Highest(FreeSlots(pool)))
        ELSE [ret |-> -1, pool |-> pool]

\* create with the slot index mixed into the seed
create_SeedsBySlot(pool, s) ==
    LET Put(i) == [ret |-> i, pool |-> [pool EXCEPT ![i] = Seeded(Add(s, FromNat(i, 8)))]]
    IN  IF FreeSlots(pool) # {} THEN Put(FirstFree(pool))
        ELSE [ret |-> -1, pool |-> pool]

\* export fn create(s: u64) i32
create(pool, s) ==
    LET Put(i) == [ret |-> i, pool |-> [pool EXCEPT ![i] = Seeded(s)]]
    IN  IF FreeSlots(pool) # {} THEN Put(FirstFree(pool))
        ELSE [ret |-> -1, pool |-> pool]

\* destroy that takes the handle modulo the length of the array
destroy_WrapsHandle(pool, handle) ==
    [pool EXCEPT ![handle % slots] = NULL]

\* destroy that resets the whole array
destroy_ClearsPool(pool, handle) ==
    IF handle >= 0 /\ handle < slots
    THEN [i \in DOMAIN pool |-> NULL]
    ELSE pool

\* export fn destroy(handle: i32) void
destroy(pool, handle) ==
    IF handle >= 0 /\ handle < slots
    THEN [pool EXCEPT ![handle] = NULL]
    ELSE pool

\* a slot that a draw may use: handle in range and the optional not null
Live(pool, handle) == handle >= 0 /\ handle < slots /\ pool[handle] # NULL

\* nextU64 that writes the advanced state back to slot 0
nextU64_WritesSlotZero(pool, handle) ==
    IF Live(pool, handle)
    THEN LET Ran(d) == [ret |-> d.ret, pool |-> [pool EXCEPT ![0] = d.st],
                        trap |-> FALSE]
         IN  Ran(Random_int_u64(pool[handle]))
    ELSE [ret |-> Zero(8), pool |-> pool, trap |-> FALSE]

\* export fn nextU64(handle: i32) u64
nextU64(pool, handle) ==
    IF Live(pool, handle)
    THEN LET Ran(d) == [ret |-> d.ret, pool |-> [pool EXCEPT ![handle] = d.st],
                        trap |-> FALSE]
         IN  Ran(Random_int_u64(pool[handle]))
    ELSE [ret |-> Zero(8), pool |-> pool, trap |-> FALSE]

\* export fn nextF64(handle: i32) f64, as the IEEE-754 bits of the result
nextF64(pool, handle) ==
    IF Live(pool, handle)
    THEN LET Ran(d) == [ret |-> d.ret, pool |-> [pool EXCEPT ![handle] = d.st],
                        trap |-> FALSE]
         IN  Ran(Random_float_f64(pool[handle]))
    ELSE [ret |-> Zero(8), pool |-> pool, trap |-> FALSE]

\* nextU32Range with `return max` as its last statement
nextU32Range_DefaultsToMax(pool, handle, min, max) ==
    IF Live(pool, handle)
    THEN LET Ran(d) == [ret |-> d.ret, pool |-> [pool EXCEPT ![handle] = d.st],
                        trap |-> FALSE]
             Asserted(ran) ==
               IF LessEq(min, max) THEN {ran}
               ELSE {ran, [ret |-> Zero(4), pool |-> pool, trap |-> TRUE]}
         IN  Asserted(Ran(Random_intRangeAtMost(pool[handle], min, max)))
    ELSE {[ret |-> max, pool |-> pool, trap |-> FALSE]}

\* export fn nextU32Range(handle: i32, min: u32, max: u32) u32: the set of
\* outcomes.  intRangeAtMost asserts min <= max; with min > max a build
\* with safety checks traps and leaves the array alone, a build without
\* them runs on with the wrapped difference.
nextU32Range(pool, handle, min, max) ==
    IF Live(pool, handle)
    THEN LET Ran(d) == [ret |-> d.ret, pool |-> [pool EXCEPT ![handle] = d.st],
                        trap |-> FALSE]
             Asserted(ran) ==
               IF LessEq(min, max) THEN {ran}
               ELSE {ran, [ret |-> Zero(4), pool |-> pool, trap |-> TRUE]}
         IN  Asserted(Ran(Random_intRangeAtMost(pool[handle], min, max)))
    ELSE {[ret |-> min, pool |-> pool, trap |-> FALSE]}

(***************************************************************************)
(* Values crossing the JavaScript / WebAssembly boundary.  A JavaScript    *)
(* integer, number or bigint, is [neg, mag]: its sign and the bytes of its *)
(* magnitude, so that 2^32 - 1 and 2^64 - 1 are values like any other.     *)
(***************************************************************************)
\* bytes of the magnitude of an integer argument: enough for 2^64 and above
JsBytes == 9

\* the JavaScript integer of value v
JsInt(v) == [neg |-> v < 0, mag |-> FromNat(IF v < 0 THEN -v ELSE v, JsBytes)]

\* a JavaScript integer passed as a parameter of n bytes: ToInt32 and
\* ToBigInt64 keep the value modulo 2^(8n), in two's complement
ToWasmInt(v, n) ==
    LET Signed(m) == IF v.neg THEN Neg(m) ELSE m
    IN  Signed(Extend(v.mag, n))

\* the conversion that passes the magnitude and drops the sign
BigIntToU64_Magnitude(seed) == Extend(seed.mag, 8)

\* BigInt(seed) passed as the i64 parameter s: the value modulo 2^64
BigIntToU64(seed) == ToWasmInt(seed, 8)

\* a JavaScript number passed as an i32 parameter: the value modulo 2^32
NumberToU32(n) == ToWasmInt(n, 4)

\* an i32 or i64 result read by JavaScript: the two's complement value
SignedToJs(w) ==
    IF w[Len(w)] >= 128 THEN [neg |-> TRUE, mag |-> Neg(w)]
    ELSE [neg |-> FALSE, mag |-> w]

\* an f64 result read by JavaScript: sign bit and the remaining bits
F64ToJs(w) ==
    [neg |-> w[8] >= 128, mag |-> [w EXCEPT ![8] = w[8] % 128]]

NoValue == [neg |-> FALSE, mag |-> <<>>]
JsZero(n) == [neg |-> FALSE, mag |-> Zero(n)]

(***************************************************************************)
(* The registry and the Prng class (src/unnamed/part_001 lines 267-344).   *)
(*                                                                         *)
(* A Prng object is [instance, handle] (#instance as the position of the   *)
(* pool in `instances`, which never loses or reorders an element) and,     *)
(* for the properties, the seed it was created with, whether destroy has   *)
(* been called on it, and the draws made on it with their results.         *)
(* `staleUse` tells whether any method has been called on a Prng after its *)
(* destroy.  A createAsync call that had to instantiate is                 *)
(* [pc, seed, newInst] and, for the properties, the length of `instances`  *)
(* when it was called, whether no other such call was then in flight, and  *)
(* the Prng it returned.  `last` names the                                 *)
(* operation executed last, its outcome and the number of occupied slots   *)
(* it found.                                                               *)
(***************************************************************************)
\* the (min, max) arguments callers pass to nextU32Range in DrawSpec
Ranges == {<<JsInt(10), JsInt(20)>>}

\* bounds of Spec: Prng objects and pools, counting those of calls in flight,
\* and createAsync calls that had to instantiate
MaxPrngs == 4
MaxPools == 3
MaxTasks == 2

\* bounds of DrawSpec: Prng objects, pools, createAsync calls that had to
\* instantiate, and draws on all objects together
DrawPrngs == 3
DrawPools == 2
DrawTasks == 1
MaxDraws == 3

NoCapacity == "No PRNG slots available. Use Prng.createAsync() to auto-expand."
NewModuleFailed == "Failed to create PRNG instance in new WASM module"
InstantiateFailed == "WebAssembly.instantiate rejected"
Trapped == "RuntimeError: unreachable"

RECURSIVE OccCountFrom(_, _)
OccCountFrom(insts, k) ==
    IF k = 0 THEN 0
    ELSE Cardinality(Occupied(insts[k])) + OccCountFrom(insts, k - 1)

\* the occupied slots of all pools together
OccCount(insts) == OccCountFrom(insts, Len(insts))

Outcome(op, prng, task, err, ret) ==
    [op |-> op, prng |-> prng, task |-> task, err |-> err, ret |-> ret,
     occ |-> OccCount(instances)]

\* the constructor keeping the pool but not the handle it was given
NewPrng_ForgetsHandle(k, handle, seed) ==
    [instance |-> k, handle |-> 0, seed |-> seed,
     destroyed |-> FALSE, hist |-> <<>>]

\* new Prng(inst, handle)
NewPrng(k, handle, seed) ==
    [instance |-> k, handle |-> handle, seed |-> seed,
     destroyed |-> FALSE, hist |-> <<>>]

RECURSIVE SumDraws(_, _)
SumDraws(ps, i) == IF i = 0 THEN 0 ELSE Len(ps[i].hist) + SumDraws(ps, i - 1)

\* the draws made so far, on all Prng objects together
TotalDraws == SumDraws(prngs, Len(prngs))

InFlight == {t \in 1..Len(tasks) : tasks[t].pc \in {"instantiating", "instantiated"}}

\* the loop leaving after the first pool
RECURSIVE Scan_FirstPoolOnly(_, _, _)
Scan_FirstPoolOnly(insts, s, k) ==
    IF k > 1 THEN [k |-> 0, handle |-> -1, insts |-> insts]
    ELSE LET Try(c) ==
               IF c.ret >= 0
               THEN [k |-> k, handle |-> c.ret, insts |-> [insts EXCEPT ![k] = c.pool]]
               ELSE Scan_FirstPoolOnly([insts EXCEPT ![k] = c.pool], s, k + 1)
         IN  Try(create(insts[k], s))

\* the loop `for (const inst of instances)` from pool k on: every full pool
\* gets a create call that returns -1, the first other one gets the slot
RECURSIVE Scan(_, _, _)
Scan(insts, s, k) ==
    IF k > Len(insts) THEN [k |-> 0, handle |-> -1, insts |-> insts]
    ELSE LET Try(c) ==
               IF c.ret >= 0
               THEN [k |-> k, handle |-> c.ret, insts |-> [insts EXCEPT ![k] = c.pool]]
               ELSE Scan([insts EXCEPT ![k] = c.pool], s, k + 1)
         IN  Try(create(insts[k], s))

Init ==
    /\ slots = PoolSlots
    /\ instances = <<EmptyPool>>
    /\ prngs = <<>>
    /\ tasks = <<>>
    /\ last = [op |-> "init", prng |-> 0, task |-> 0, err |-> "", ret |-> NoValue,
               occ |-> 0]
    /\ staleUse = FALSE

\* create that constructs the Prng from whatever the scan returned, the
\* sentinel included
Prng_create_KeepsSentinel(seed) ==
    LET Scanned(r) ==
          /\ instances' = r.insts
          /\ prngs' = Append(prngs, NewPrng(IF r.k > 0 THEN r.k ELSE Len(instances),
                                            r.handle, seed))
          /\ last' = Outcome("create", Len(prngs) + 1, 0, "", NoValue)
    IN  /\ Scanned(Scan(instances, BigIntToU64(seed), 1))
        /\ UNCHANGED <<slots, tasks, staleUse>>

\* static create(seed): Prng
Prng_create(seed) ==
    LET Scanned(r) ==
          /\ instances' = r.insts
          /\ IF r.k > 0
             THEN /\ prngs' = Append(prngs, NewPrng(r.k, r.handle, seed))
                  /\ last' = Outcome("create", Len(prngs) + 1, 0, "", NoValue)
             ELSE /\ prngs' = prngs
                  /\ last' = Outcome("create", 0, 0, NoCapacity, NoValue)
    IN  /\ Scanned(Scan(instances, BigIntToU64(seed), 1))
        /\ UNCHANGED <<slots, tasks, staleUse>>

\* createAsync that makes room in the registry before it awaits the
\* instantiation
Prng_createAsync_PushesBeforeAwait(seed) ==
    LET Scanned(r) ==
          IF r.k > 0
          THEN /\ instances' = r.insts
               /\ prngs' = Append(prngs, NewPrng(r.k, r.handle, seed))
               /\ tasks' = tasks
               /\ last' = Outcome("createAsync", Len(prngs) + 1, 0, "", NoValue)
          ELSE /\ instances' = Append(r.insts, EmptyPool)
               /\ prngs' = prngs
               /\ tasks' = Append(tasks, [pc |-> "instantiating", seed |-> seed,
                                          newInst |-> NULL, prng |-> 0,
                                          pools |-> Len(instances),
                                          alone |-> InFlight = {}])
               /\ last' = Outcome("await", 0, Len(tasks) + 1, "", NoValue)
    IN  /\ Scanned(Scan(instances, BigIntToU64(seed), 1))
        /\ UNCHANGED <<slots, staleUse>>

\* static async createAsync(seed), up to its await: the scan, and when no
\* pool has a free slot the call of createWasmInstance()
Prng_createAsync(seed) ==
    LET Scanned(r) ==
          /\ instances' = r.insts
          /\ IF r.k > 0
             THEN /\ prngs' = Append(prngs, NewPrng(r.k, r.handle, seed))
                  /\ tasks' = tasks
                  /\ last' = Outcome("createAsync", Len(prngs) + 1, 0, "", NoValue)
             ELSE /\ prngs' = prngs
                  /\ tasks' = Append(tasks, [pc |-> "instantiating", seed |-> seed,
                                             newInst |-> NULL, prng |-> 0,
                                             pools |-> Len(instances),
                                             alone |-> InFlight = {}])
                  /\ last' = Outcome("await", 0, Len(tasks) + 1, "", NoValue)
    IN  /\ Scanned(Scan(instances, BigIntToU64(seed), 1))
        /\ UNCHANGED <<slots, staleUse>>

\* an instantiation that hands over the instance and leaves the call waiting
Instantiated_StaysPending(t) ==
    /\ tasks[t].pc = "instantiating"
    /\ tasks' = [tasks EXCEPT ![t].newInst = EmptyPool]
    /\ last' = Outcome("instantiated", 0, t, "", NoValue)
    /\ UNCHANGED <<slots, instances, prngs, staleUse>>

\* an instantiation that resolves with the exports of the first instance
\* again instead of those of a fresh one
Instantiated_ReusesFirstPool(t) ==
    /\ tasks[t].pc = "instantiating"
    /\ tasks' = [tasks EXCEPT ![t].pc = "instantiated", ![t].newInst = instances[1]]
    /\ last' = Outcome("instantiated", 0, t, "", NoValue)
    /\ UNCHANGED <<slots, instances, prngs, staleUse>>

\* createWasmInstance() of task t: WebAssembly.instantiate resolves with a
\* fresh instance, whose array is all null
Instantiated(t) ==
    /\ tasks[t].pc = "instantiating"
    /\ tasks' = [tasks EXCEPT ![t].pc = "instantiated", ![t].newInst = EmptyPool]
    /\ last' = Outcome("instantiated", 0, t, "", NoValue)
    /\ UNCHANGED <<slots, instances, prngs, staleUse>>

\* a rejection that createAsync answers by instantiating again
InstantiateFails_Retries(t) ==
    /\ tasks[t].pc = "instantiating"
    /\ tasks' = [tasks EXCEPT ![t].pools = Len(instances)]
    /\ last' = Outcome("reject", 0, t, InstantiateFailed, NoValue)
    /\ UNCHANGED <<slots, instances, prngs, staleUse>>

\* createWasmInstance() of task t: WebAssembly.instantiate rejects, and the
\* rejection propagates out of createAsync
InstantiateFails(t) ==
    /\ tasks[t].pc = "instantiating"
    /\ tasks' = [tasks EXCEPT ![t].pc = "failed"]
    /\ last' = Outcome("reject", 0, t, InstantiateFailed, NoValue)
    /\ UNCHANGED <<slots, instances, prngs, staleUse>>

\* the resumption that pushes the new pool only if no older pool has a free
\* slot by then, and creates in the new pool in any case
Resume_PushesIfStillFull(t) ==
    /\ tasks[t].pc = "instantiated"
    /\ LET Created(c) ==
             /\ instances' = IF \A k \in 1..Len(instances) : IsFull(instances[k])
                             THEN Append(instances, c.pool) ELSE instances
             /\ prngs' = Append(prngs, NewPrng(Len(instances) + 1, c.ret, tasks[t].seed))
             /\ tasks' = [tasks EXCEPT ![t].pc = "done", ![t].newInst = NULL,
                                       ![t].prng = Len(prngs) + 1]
             /\ last' = Outcome("resume", Len(prngs) + 1, t, "", NoValue)
       IN  Created(create(tasks[t].newInst, BigIntToU64(tasks[t].seed)))
    /\ UNCHANGED <<slots, staleUse>>

\* the resumption with create called on the last pool of the registry
\* instead of the new one
Resume_CreatesInLastPool(t) ==
    /\ tasks[t].pc = "instantiated"
    /\ LET Created(c) ==
             /\ instances' = Append(instances, tasks[t].newInst)
             /\ IF c.ret < 0
                THEN /\ prngs' = prngs
                     /\ tasks' = [tasks EXCEPT ![t].pc = "failed", ![t].newInst = NULL]
                     /\ last' = Outcome("resume", 0, t, NewModuleFailed, NoValue)
                ELSE /\ prngs' = Append(prngs,
                                        NewPrng(Len(instances), c.ret, tasks[t].seed))
                     /\ tasks' = [tasks EXCEPT ![t].pc = "done", ![t].newInst = NULL,
                                               ![t].prng = Len(prngs) + 1]
                     /\ last' = Outcome("resume", Len(prngs) + 1, t, "", NoValue)
       IN  Created(create(instances[Len(instances)], BigIntToU64(tasks[t].seed)))
    /\ UNCHANGED <<slots, staleUse>>

\* createAsync of task t after its await: push the new pool, create in it
Resume(t) ==
    /\ tasks[t].pc = "instantiated"
    /\ LET Created(c) ==
             /\ instances' = Append(instances, c.pool)
             /\ IF c.ret < 0
                THEN /\ prngs' = prngs
                     /\ tasks' = [tasks EXCEPT ![t].pc = "failed", ![t].newInst = NULL]
                     /\ last' = Outcome("resume", 0, t, NewModuleFailed, NoValue)
                ELSE /\ prngs' = Append(prngs,
                                        NewPrng(Len(instances) + 1, c.ret, tasks[t].seed))
                     /\ tasks' = [tasks EXCEPT ![t].pc = "done", ![t].newInst = NULL,
                                               ![t].prng = Len(prngs) + 1]
                     /\ last' = Outcome("resume", Len(prngs) + 1, t, "", NoValue)
       IN  Created(create(tasks[t].newInst, BigIntToU64(tasks[t].seed)))
    /\ UNCHANGED <<slots, staleUse>>

\* the call fn(args) on Prng p returned ret (or threw err)
Record(p, fn, min, max, err, ret) ==
    [prngs EXCEPT ![p].hist =
        Append(@, [fn |-> fn, min |-> min, max |-> max, err |-> err, ret |-> ret])]

\* nextU64(): bigint
Prng_nextU64(p) ==
    /\ LET Returned(pool, ret) ==
             /\ instances' = [instances EXCEPT ![prngs[p].instance] = pool]
             /\ prngs' = Record(p, "nextU64", JsInt(0), JsInt(0), "", ret)
             /\ last' = Outcome("nextU64", p, 0, "", ret)
           Drawn(d) == Returned(d.pool, SignedToJs(d.ret))
       IN  Drawn(nextU64(instances[prngs[p].instance], prngs[p].handle))
    /\ staleUse' = (staleUse \/ prngs[p].destroyed)
    /\ UNCHANGED <<slots, tasks>>

\* nextF64(): number
Prng_nextF64(p) ==
    /\ LET Returned(pool, ret) ==
             /\ instances' = [instances EXCEPT ![prngs[p].instance] = pool]
             /\ prngs' = Record(p, "nextF64", JsInt(0), JsInt(0), "", ret)
             /\ last' = Outcome("nextF64", p, 0, "", ret)
           Drawn(d) == Returned(d.pool, F64ToJs(d.ret))
       IN  Drawn(nextF64(instances[prngs[p].instance], prngs[p].handle))
    /\ staleUse' = (staleUse \/ prngs[p].destroyed)
    /\ UNCHANGED <<slots, tasks>>

\* nextU32Range(min, max): number
Prng_nextU32Range(p, min, max) ==
    /\ \E d \in nextU32Range(instances[prngs[p].instance], prngs[p].handle,
                             NumberToU32(min), NumberToU32(max)) :
         LET Returned(err, ret) ==
               /\ instances' = [instances EXCEPT ![prngs[p].instance] = d.pool]
               /\ prngs' = Record(p, "nextU32Range", min, max, err, ret)
               /\ last' = Outcome("nextU32Range", p, 0, err, ret)
         IN  IF d.trap THEN Returned(Trapped, NoValue)
             ELSE Returned("", SignedToJs(d.ret))
    /\ staleUse' = (staleUse \/ prngs[p].destroyed)
    /\ UNCHANGED <<slots, tasks>>

\* destroy that takes a pool out of the registry when its last generator
\* goes, unless it is the only pool
Prng_destroy_DropsEmptyPool(p) ==
    /\ LET Dropped(k, pool) ==
             IF Occupied(pool) = {} /\ Len(instances) > 1
             THEN SubSeq(instances, 1, k - 1) \o SubSeq(instances, k + 1, Len(instances))
             ELSE [instances EXCEPT ![k] = pool]
       IN  instances' = Dropped(prngs[p].instance,
                                destroy(instances[prngs[p].instance], prngs[p].handle))
    /\ prngs' = [prngs EXCEPT ![p].destroyed = TRUE]
    /\ staleUse' = (staleUse \/ prngs[p].destroyed)
    /\ last' = Outcome("destroy", p, 0, "", NoValue)
    /\ UNCHANGED <<slots, tasks>>

\* destroy(): void, and [Symbol.dispose](), which only calls it
Prng_destroy(p) ==
    /\ instances' = [instances EXCEPT ![prngs[p].instance] =
                        destroy(@, prngs[p].handle)]
    /\ prngs' = [prngs EXCEPT ![p].destroyed = TRUE]
    /\ staleUse' = (staleUse \/ prngs[p].destroyed)
    /\ last' = Outcome("destroy", p, 0, "", NoValue)
    /\ UNCHANGED <<slots, tasks>>

\* the Prng objects and pools there will be once the calls in flight are done
Prngs(ps, ts) ==
    Len(ps) + Cardinality({t \in 1..Len(ts) : ts[t].pc \in {"instantiating", "instantiated"}})
Pools(is, ts) ==
    Len(is) + Cardinality({t \in 1..Len(ts) : ts[t].pc \in {"instantiating", "instantiated"}})

Within(maxPrngs, maxPools, maxTasks) ==
    /\ Prngs(prngs', tasks') <= maxPrngs
    /\ Pools(instances', tasks') <= maxPools
    /\ Len(tasks') <= maxTasks

(***************************************************************************)
(* Spec: creation, asynchronous expansion and destruction, in every        *)
(* interleaving the single-threaded scheduler allows.                      *)
(***************************************************************************)
Next ==
    \/ \E seed \in Seeds : Prng_create(JsInt(seed)) /\ Within(MaxPrngs, MaxPools, MaxTasks)
    \/ \E seed \in Seeds : Prng_createAsync(JsInt(seed)) /\ Within(MaxPrngs, MaxPools, MaxTasks)
    \/ \E t \in 1..Len(tasks) : Instantiated(t)
    \/ \E t \in 1..Len(tasks) : InstantiateFails(t)
    \/ \E t \in 1..Len(tasks) : Resume(t)
    \/ \E p \in 1..Len(prngs) : Prng_destroy(p)

Spec == Init /\ [][Next]_vars

(***************************************************************************)
(* DrawSpec: the same operations together with the draws, up to the first  *)
(* call of a method on a destroyed Prng; instantiation succeeds.           *)
(***************************************************************************)
DrawNext ==
    \/ ~staleUse /\ \E seed \in Seeds :
          Prng_create(JsInt(seed)) /\ Within(DrawPrngs, DrawPools, DrawTasks)
    \/ ~staleUse /\ \E seed \in Seeds :
          Prng_createAsync(JsInt(seed)) /\ Within(DrawPrngs, DrawPools, DrawTasks)
    \/ ~staleUse /\ \E t \in 1..Len(tasks) : Instantiated(t)
    \/ ~staleUse /\ \E t \in 1..Len(tasks) : Resume(t)
    \/ ~staleUse /\ \E p \in 1..Len(prngs) : Prng_destroy(p)
    \/ ~staleUse /\ TotalDraws < MaxDraws /\ \E p \in 1..Len(prngs) : Prng_nextU64(p)
    \/ ~staleUse /\ TotalDraws < MaxDraws /\ \E p \in 1..Len(prngs) : Prng_nextF64(p)
    \/ ~staleUse /\ TotalDraws < MaxDraws /\ \E p \in 1..Len(prngs), r \in Ranges :
          Prng_nextU32Range(p, r[1], r[2])

DrawSpec == Init /\ [][DrawNext]_vars

(***************************************************************************)
(* CapSpec: the registry of the build as it is, at its capacity.  It       *)
(* starts where MAX_INSTANCES - 1 or MAX_INSTANCES calls create(0),        *)
(* create(1), ... leave it: one pool with that many slots occupied and a   *)
(* Prng object for each.  From there create, createAsync and destroy run   *)
(* in every interleaving, instantiation resolving or rejecting.            *)
(***************************************************************************)
\* bounds of CapSpec: Prng objects constructed after the start, pools, and
\* createAsync calls that await
CapNew == 2
CapPools == 3
CapTasks == 2

CapInit ==
    /\ slots = MAX_INSTANCES
    /\ \E n \in {MAX_INSTANCES - 1, MAX_INSTANCES} :
          /\ instances = <<[i \in 0..(MAX_INSTANCES - 1) |->
                              IF i < n THEN Seeded(FromNat(i, 8)) ELSE NULL]>>
          /\ prngs = Tuple([p \in 1..n |-> NewPrng(1, p - 1, JsInt(p - 1))])
          /\ last = [op |-> "init", prng |-> 0, task |-> 0, err |-> "", ret |-> NoValue,
                     occ |-> n]
    /\ tasks = <<>>
    /\ staleUse = FALSE

\* the Prng objects CapSpec destroys: the one of the last slot of the first
\* pool and those constructed after the start
CapDestroyed == {p \in 1..Len(prngs) : p >= MAX_INSTANCES}

CapNext ==
    \/ \E seed \in Seeds :
          Prng_create(JsInt(seed)) /\ Within(MAX_INSTANCES + CapNew, CapPools, CapTasks)
    \/ \E seed \in Seeds :
          Prng_createAsync(JsInt(seed)) /\ Within(MAX_INSTANCES + CapNew, CapPools, CapTasks)
    \/ \E t \in 1..Len(tasks) : Instantiated(t)
    \/ \E t \in 1..Len(tasks) : InstantiateFails(t)
    \/ \E t \in 1..Len(tasks) : Resume(t)
    \/ \E p \in CapDestroyed : Prng_destroy(p)

CapSpec == CapInit /\ [][CapNext]_vars

(***************************************************************************)
(* LiveSpec: createAsync and destroy when every WebAssembly.instantiate    *)
(* resolves.  The event loop runs the continuation of every settled        *)
(* promise, so a call that awaits is not left waiting for ever: weak       *)
(* fairness of the steps of each call in flight.  All calls pass the seed  *)
(* 42: which generator a slot holds makes no difference to any step here.  *)
(***************************************************************************)
\* bounds of LiveSpec: Prng objects, pools and createAsync calls that await
LivePrngs == 5
LivePools == 4
LiveTasks == 3

\* the next step of the createAsync call t, if it is in flight
Continue(t) == t \in 1..Len(tasks) /\ (Instantiated(t) \/ Resume(t))

LiveNext ==
    \/ Prng_createAsync(JsInt(42)) /\ Within(LivePrngs, LivePools, LiveTasks)
    \/ \E t \in 1..Len(tasks) : Instantiated(t)
    \/ \E t \in 1..Len(tasks) : Resume(t)
    \/ \E p \in 1..Len(prngs) : Prng_destroy(p)

LiveSpec ==
    /\ Init
    /\ [][LiveNext]_vars
    /\ \A t \in 1..LiveTasks : WF_vars(Continue(t))

(***************************************************************************)
(* FullSpec: the build as it is, with MAX_INSTANCES slots per pool, in the *)
(* run of the test "createAsync - creates multiple WASM instances as       *)
(* needed": createAsync(i) for i = 0, 1, 2, ..., each awaited before the   *)
(* next is called, nothing destroyed, every instantiation succeeding.      *)
(***************************************************************************)
FullInit ==
    /\ slots = MAX_INSTANCES
    /\ instances = <<EmptyPool>>
    /\ prngs = <<>>
    /\ tasks = <<>>
    /\ last = [op |-> "init", prng |-> 0, task |-> 0, err |-> "", ret |-> NoValue,
               occ |-> 0]
    /\ staleUse = FALSE

FullNext ==
    \/ /\ InFlight = {}
       /\ Len(prngs) < 2 * MAX_INSTANCES
       /\ Prng_createAsync(JsInt(Len(prngs)))
    \/ \E t \in 1..Len(tasks) : Instantiated(t)
    \/ \E t \in 1..Len(tasks) : Resume(t)

FullSpec == FullInit /\ [][FullNext]_vars

(***************************************************************************)
(* PoolSpec: one pool and one call of one of its exports, with the raw     *)
(* arguments a host can pass.  The pool starts in any combination of empty *)
(* and occupied slots.  An occupied slot holds the state a seed expands    *)
(* to, or a state whose next output word is a chosen one: Xoshiro256 runs  *)
(* through every non-zero state in one cycle, so a slot that is drawn from *)
(* often enough is in each of them at some time.                           *)
(***************************************************************************)
\* the generator state <<0, s1, s2, s3>> has the output rotl(s3, 23)
StateYielding(w) == <<Zero(8), SplitMixMulA, SplitMixMulB, Rotl(w, 41)>>

\* output words: 0, 2^64 - 1, 11 and 12 leading zeros, low half 0, high half 0
GenWords ==
    {Zero(8), Not(Zero(8)),
     <<0, 0, 0, 0, 0, 0, 16, 0>>, <<255, 255, 255, 255, 255, 255, 15, 0>>,
     <<0, 0, 0, 0, 1, 0, 0, 0>>, <<255, 255, 255, 255, 0, 0, 0, 0>>}

GenStates == {Seeded(FromInt(s, 8)) : s \in Seeds} \cup {StateYielding(w) : w \in GenWords}

\* u32 arguments: 0, 1, 10, 20, 2^31 - 1, 2^31, 2^32 - 2, 2^32 - 1
U32Values ==
    {Zero(4), One(MaxU32), FromNat(10, 4), FromNat(20, 4),
     <<255, 255, 255, 127>>, <<0, 0, 0, 128>>, <<254, 255, 255, 255>>, MaxU32}

\* i32 handles: below, inside and above the array
Handles == -1..PoolSlots

\* calls made on the pool in one behaviour of PoolSpec
PoolCalls == 1

PoolInit ==
    /\ slots = PoolSlots
    /\ \E pool \in [0..(PoolSlots - 1) -> GenStates \cup {NULL}] : instances = <<pool>>
    /\ prngs = <<>>
    /\ tasks = <<>>
    /\ last = [op |-> "init", n |-> 0]
    /\ staleUse = FALSE

\* the export `op` was called with these arguments and returned ret (or trapped)
Called(op, handle, min, max, s, err, ret) ==
    [op |-> op, n |-> last.n + 1, handle |-> handle, min |-> min, max |-> max,
     s |-> s, err |-> err, ret |-> ret]

Call_create(s) ==
    /\ last.n < PoolCalls
    /\ LET Returned(c) ==
             /\ instances' = <<c.pool>>
             /\ last' = Called("create", 0, Zero(4), Zero(4), s, "", c.ret)
       IN  Returned(create(instances[1], s))
    /\ UNCHANGED <<slots, prngs, tasks, staleUse>>

Call_destroy(handle) ==
    /\ last.n < PoolCalls
    /\ instances' = <<destroy(instances[1], handle)>>
    /\ last' = Called("destroy", handle, Zero(4), Zero(4), Zero(8), "", NoValue)
    /\ UNCHANGED <<slots, prngs, tasks, staleUse>>

Call_nextU64(handle) ==
    /\ last.n < PoolCalls
    /\ LET Returned(d) ==
             /\ instances' = <<d.pool>>
             /\ last' = Called("nextU64", handle, Zero(4), Zero(4), Zero(8), "", d.ret)
       IN  Returned(nextU64(instances[1], handle))
    /\ UNCHANGED <<slots, prngs, tasks, staleUse>>

Call_nextF64(handle) ==
    /\ last.n < PoolCalls
    /\ LET Returned(d) ==
             /\ instances' = <<d.pool>>
             /\ last' = Called("nextF64", handle, Zero(4), Zero(4), Zero(8), "", d.ret)
       IN  Returned(nextF64(instances[1], handle))
    /\ UNCHANGED <<slots, prngs, tasks, staleUse>>

Call_nextU32Range(handle, min, max) ==
    /\ last.n < PoolCalls
    /\ \E d \in nextU32Range(instances[1], handle, min, max) :
         /\ instances' = <<d.pool>>
         /\ last' = Called("nextU32Range", handle, min, max, Zero(8),
                           IF d.trap THEN Trapped ELSE "", d.ret)
    /\ UNCHANGED <<slots, prngs, tasks, staleUse>>

PoolNext ==
    \/ \E s \in {FromInt(n, 8) : n \in Seeds} : Call_create(s)
    \/ \E handle \in Handles : Call_destroy(handle)
    \/ \E handle \in Handles : Call_nextU64(handle)
    \/ \E handle \in Handles : Call_nextF64(handle)
    \/ \E handle \in Handles, min \in U32Values, max \in U32Values :
          Call_nextU32Range(handle, min, max)

PoolSpec == PoolInit /\ [][PoolNext]_vars

(***************************************************************************)
(* BuildSpec: the same calls on one pool of the build as it is, with       *)
(* MAX_INSTANCES slots.  The pool starts empty, full, or with the slots of *)
(* one of a few sets occupied, as creates and destroys leave it.           *)
(***************************************************************************)
\* the sets of occupied slots: none, all, the first, the last, all but the
\* first, all but the last, all but slot 100, all but slots 7 and 200, and
\* the even ones
OccupiedSets ==
    {{}, 0..(MAX_INSTANCES - 1), {0}, {MAX_INSTANCES - 1},
     1..(MAX_INSTANCES - 1), 0..(MAX_INSTANCES - 2),
     (0..(MAX_INSTANCES - 1)) \ {100}, (0..(MAX_INSTANCES - 1)) \ {7, 200},
     {i \in 0..(MAX_INSTANCES - 1) : i % 2 = 0}}

\* i32 handles: the least, -1, inside the array, MAX_INSTANCES and above
BuildHandles ==
    {-2147483647 - 1, -1, 0, 1, 7, 100, MAX_INSTANCES - 1, MAX_INSTANCES,
     MAX_INSTANCES + 1, 2147483647}

\* the u32 arguments of the range calls of BuildSpec: 0, 10, 20, 2^32 - 1
BuildValues == {Zero(4), FromNat(10, 4), FromNat(20, 4), MaxU32}

BuildInit ==
    /\ slots = MAX_INSTANCES
    /\ \E occ \in OccupiedSets, st \in {Seeded(FromInt(42, 8)), StateYielding(Zero(8))} :
          instances = <<[i \in 0..(MAX_INSTANCES - 1) |-> IF i \in occ THEN st ELSE NULL]>>
    /\ prngs = <<>>
    /\ tasks = <<>>
    /\ last = [op |-> "init", n |-> 0]
    /\ staleUse = FALSE

BuildNext ==
    \/ \E s \in {FromInt(n, 8) : n \in Seeds} : Call_create(s)
    \/ \E handle \in BuildHandles : Call_destroy(handle)
    \/ \E handle \in BuildHandles : Call_nextU64(handle)
    \/ \E handle \in BuildHandles : Call_nextF64(handle)
    \/ \E handle \in BuildHandles, min \in BuildValues, max \in BuildValues :
          Call_nextU32Range(handle, min, max)

BuildSpec == BuildInit /\ [][BuildNext]_vars

(***************************************************************************)
(* ValueSpec: the values that cross the boundary.  Prng objects are        *)
(* created from seeds on both sides of 0 and of 2^64 and drawn from with   *)
(* ranges on both sides of 2^31; nothing is destroyed and there is a free  *)
(* slot for every create.                                                  *)
(***************************************************************************)
\* the JavaScript integer whose value is the unsigned word w
JsWord(w) == [neg |-> FALSE, mag |-> Extend(w, JsBytes)]

\* seeds: -1 and 2^64 - 1; 42 (number or bigint), 2^64 + 42 and 42 - 2^64; 7
BigSeeds ==
    {JsInt(-1), JsWord(Not(Zero(8))),
     JsInt(42), [neg |-> FALSE, mag |-> <<42, 0, 0, 0, 0, 0, 0, 0, 1>>],
     [neg |-> TRUE, mag |-> Extend(FromInt(-42, 8), JsBytes)],
     JsInt(7)}

\* ranges min <= max: 10..20, 2^31 - 101..2^31 - 1, 0..2^32 - 1,
\* 2^31..2^32 - 1, and 2^32 - 1 alone
JsRanges ==
    {<<JsInt(10), JsInt(20)>>,
     <<JsWord(<<155, 255, 255, 127>>), JsWord(<<255, 255, 255, 127>>)>>,
     <<JsInt(0), JsWord(MaxU32)>>,
     <<JsWord(<<0, 0, 0, 128>>), JsWord(MaxU32)>>,
     <<JsWord(MaxU32), JsWord(MaxU32)>>}

\* bounds of ValueSpec: Prng objects, and draws on all of them together
ValuePrngs == 2
ValueDraws == 2

ValueNext ==
    \/ \E seed \in BigSeeds : Prng_create(seed) /\ Len(prngs') <= ValuePrngs
    \/ TotalDraws < ValueDraws /\ \E p \in 1..Len(prngs) : Prng_nextU64(p)
    \/ TotalDraws < ValueDraws /\ \E p \in 1..Len(prngs) : Prng_nextF64(p)
    \/ TotalDraws < ValueDraws /\ \E p \in 1..Len(prngs), r \in JsRanges :
          Prng_nextU32Range(p, r[1], r[2])

ValueSpec == Init /\ [][ValueNext]_vars

(***************************************************************************)
(* Properties of creation and destruction.                                 *)
(***************************************************************************)
\* no pool of the registry has a free slot
AllFull(insts) == \A k \in 1..Len(insts) : IsFull(insts[k])

\* the slot a Prng object refers to
SlotOf(insts, prng) == insts[prng.instance][prng.handle]

\* every slot but the one of `prng` holds in `after` what it holds in `before`
OtherSlotsSame(before, after, prng) ==
    /\ Len(after) = Len(before)
    /\ \A k \in 1..Len(before) : \A i \in DOMAIN before[k] :
          (k # prng.instance \/ i # prng.handle) => after[k][i] = before[k][i]

\* C1: a synchronous create called when every slot of every existing pool is
\* occupied throws the no-capacity error, appends no pool to the registry,
\* changes no slot of any pool and constructs no Prng
C1_CreateWhenFull ==
    [][(last'.op = "create" /\ AllFull(instances))
         => (/\ last'.err = NoCapacity
             /\ last'.prng = 0
             /\ instances' = instances
             /\ prngs' = prngs)]_vars

\* a create has thrown the no-capacity error on a registry of several pools,
\* all of them full
C1_Witness ==
    /\ last.op = "create"
    /\ last.err = NoCapacity
    /\ Len(instances) >= 2
    /\ AllFull(instances)
    /\ last.occ = slots * Len(instances)

\* C2: destroy on a Prng not destroyed before whose slot is occupied frees
\* exactly one slot (the number of occupied slots drops by one, that slot is
\* empty, no other slot changes), and a synchronous create that comes next
\* succeeds in a slot that was free, without a new pool
C2_DestroyFreesOneSlot ==
    [][/\ (/\ last'.op = "destroy"
           /\ ~prngs[last'.prng].destroyed
           /\ SlotOf(instances, prngs[last'.prng]) # NULL)
          => (/\ OccCount(instances') = OccCount(instances) - 1
              /\ SlotOf(instances', prngs[last'.prng]) = NULL
              /\ OtherSlotsSame(instances, instances', prngs[last'.prng]))
       /\ (/\ last.op = "destroy"
           /\ OccCount(instances) = last.occ - 1
           /\ last'.op = "create")
          => (/\ last'.err = ""
              /\ last'.prng = Len(prngs) + 1
              /\ SlotOf(instances, prngs'[Len(prngs) + 1]) = NULL
              /\ SlotOf(instances', prngs'[Len(prngs) + 1]) # NULL
              /\ OccCount(instances') = OccCount(instances) + 1
              /\ OtherSlotsSame(instances, instances', prngs'[Len(prngs) + 1]))]_vars

\* a create has succeeded, on a registry of two pools, in the slot a
\* destroyed Prng had, which was the only free slot of its pool
C2_Witness ==
    /\ last.op = "create"
    /\ last.err = ""
    /\ Len(instances) >= 2
    /\ IsFull(instances[prngs[last.prng].instance])
    /\ \E q \in 1..Len(prngs) :
          /\ prngs[q].destroyed
          /\ prngs[q].instance = prngs[last.prng].instance
          /\ prngs[q].handle = prngs[last.prng].handle

\* C3: a createAsync called when every pool is full suspends for one
\* instantiation; when it was called with no other creation in flight and
\* none was called during its suspension, its resumption succeeds, the
\* registry has exactly one pool more than at the call, and the Prng it
\* returns has an occupied slot of that new, last pool, the only occupied
\* slot there
C3_ExpandsByOnePool ==
    [][/\ (last'.op \in {"createAsync", "await"} /\ AllFull(instances) /\ InFlight = {})
          => (/\ last'.op = "await"
              /\ last'.err = ""
              /\ instances' = instances
              /\ InFlight' = {Len(tasks) + 1}
              /\ tasks'[Len(tasks) + 1].alone)
       /\ (/\ last'.op = "resume"
           /\ tasks[last'.task].alone
           /\ last'.task = Len(tasks))
          => (/\ last'.err = ""
              /\ tasks'[last'.task].pc = "done"
              /\ Len(instances') = tasks[last'.task].pools + 1
              /\ \A k \in 1..Len(instances) : instances'[k] = instances[k]
              /\ last'.prng = Len(prngs) + 1
              /\ tasks'[last'.task].prng = Len(prngs) + 1
              /\ prngs'[Len(prngs) + 1].instance = Len(instances')
              /\ SlotOf(instances', prngs'[Len(prngs) + 1]) # NULL
              /\ Cardinality(Occupied(instances'[Len(instances')])) = 1)]_vars

\* a createAsync called alone on a full registry has resumed and returned its
\* Prng, which is in the second pool
C3_Witness ==
    /\ last.op = "resume"
    /\ last.err = ""
    /\ tasks[last.task].alone
    /\ last.task = Len(tasks)
    /\ tasks[last.task].pools = 1
    /\ last.occ = slots
    /\ Len(instances) = 2
    /\ prngs[last.prng].instance = 2

\* C4: in the run of 2 * MAX_INSTANCES createAsync calls, each awaited before
\* the next, no call fails, the registry never has more than two pools, and
\* after the last call it has exactly two, both full
C4_TwoFullPools ==
    /\ last.err = ""
    /\ \A t \in 1..Len(tasks) : tasks[t].pc # "failed"
    /\ Len(instances) <= 2
    /\ OccCount(instances) = Len(prngs)
    /\ (Len(prngs) = 2 * MAX_INSTANCES)
          => (/\ Len(instances) = 2
              /\ AllFull(instances)
              /\ \A k \in 1..2 : Cardinality(Occupied(instances[k])) = MAX_INSTANCES)

\* the last of the 2 * MAX_INSTANCES calls has returned
C4_Witness ==
    /\ slots = MAX_INSTANCES
    /\ Len(prngs) = 2 * MAX_INSTANCES
    /\ last.op = "createAsync"
    /\ last.prng = 2 * MAX_INSTANCES
    /\ InFlight = {}

\* C5: once the createAsync calls that were in flight together, all called
\* on a registry of the same length, have completed (none failed, nothing
\* destroyed), the registry has no more pools than the Prng objects need:
\* one, or so many that all but the last could not hold them
C5_NoOverProvisioning ==
    (/\ tasks # <<>>
     /\ \A t \in 1..Len(tasks) : tasks[t].pc = "done" /\ tasks[t].pools = tasks[1].pools
     /\ \A p \in 1..Len(prngs) : ~prngs[p].destroyed)
      => (Len(instances) = 1 \/ (Len(instances) - 1) * slots < Len(prngs))

\* C7: destroy on a Prng that was destroyed before throws nothing and
\* changes no slot of any pool, whatever was created in between
C7_DestroyIdempotent ==
    [][(last'.op = "destroy" /\ prngs[last'.prng].destroyed)
         => (last'.err = "" /\ instances' = instances)]_vars

\* C10: whenever create or createAsync puts a new generator in pool k, every
\* pool before k is full at that moment, the resumption of a suspended
\* createAsync included
C10_FilledInCreationOrder ==
    [][(last'.op \in {"create", "createAsync", "resume"} /\ last'.prng > 0)
         => \A j \in 1..(prngs'[last'.prng].instance - 1) : IsFull(instances[j])]_vars

(***************************************************************************)
(* Properties of the draws.                                                *)
(***************************************************************************)
IsDraw(op) == op \in {"nextU64", "nextF64", "nextU32Range"}

\* the safe default of a draw, as JavaScript reads it
Default(call) ==
    IF call.fn = "nextU64" THEN JsZero(8)
    ELSE IF call.fn = "nextF64" THEN JsZero(8)
    ELSE SignedToJs(NumberToU32(call.min))

\* one call on a generator in state st that no pool holds: the library call
\* the export makes, and its result as JavaScript reads it
Alone(st, call) ==
    LET Signed(d) == [ret |-> SignedToJs(d.ret), st |-> d.st]
        Float(d)  == [ret |-> F64ToJs(d.ret), st |-> d.st]
    IN  IF call.err # "" THEN [ret |-> NoValue, st |-> st]
        ELSE IF call.fn = "nextU64" THEN Signed(Random_int_u64(st))
        ELSE IF call.fn = "nextF64" THEN Float(Random_float_f64(st))
        ELSE Signed(Random_intRangeAtMost(st, NumberToU32(call.min),
                                          NumberToU32(call.max)))

\* the results of the calls hist[i], hist[i + 1], ... made on such a generator
RECURSIVE DrainedAlone(_, _, _)
DrainedAlone(st, hist, i) ==
    IF i > Len(hist) THEN <<>>
    ELSE LET Rest(d) == <<d.ret>> \o DrainedAlone(d.st, hist, i + 1)
         IN  Rest(Alone(st, hist[i]))

\* the first n calls of a history, and their results
Calls(hist, n) == [i \in 1..n |-> <<hist[i].fn, hist[i].min, hist[i].max>>]
Results(hist, n) == [i \in 1..n |-> hist[i].ret]

\* C6: a draw on a Prng that was destroyed before returns the safe default
\* (0, 0.0, min), throws nothing and changes no slot of any pool, whatever
\* was created or destroyed since
C6_DrawAfterDestroy ==
    [][(IsDraw(last'.op) /\ prngs[last'.prng].destroyed)
         => (/\ last'.err = ""
             /\ last'.ret = Default(prngs'[last'.prng].hist[Len(prngs'[last'.prng].hist)])
             /\ instances' = instances)]_vars

\* C8: a draw on a Prng that was not destroyed changes no slot but its own
\* and no other Prng's history, and the results the Prng has returned so
\* far, under whatever interleaving with the other operations, are those
\* of the same calls on a generator of its seed drained alone
C8_Independence ==
    [][(IsDraw(last'.op) /\ ~prngs[last'.prng].destroyed)
         => (/\ OtherSlotsSame(instances, instances', prngs[last'.prng])
             /\ \A q \in 1..Len(prngs) : q # last'.prng => prngs'[q] = prngs[q]
             /\ Len(prngs'[last'.prng].hist) = Len(prngs[last'.prng].hist) + 1
             /\ Tuple(Results(prngs'[last'.prng].hist, Len(prngs'[last'.prng].hist)))
                  = DrainedAlone(Seeded(BigIntToU64(prngs'[last'.prng].seed)),
                                 prngs'[last'.prng].hist, 1))]_vars

\* of two Prng objects that share a pool, the one has returned two draws,
\* the second of them last, and the other one draw
C8_Witness ==
    /\ IsDraw(last.op)
    /\ ~staleUse
    /\ Len(prngs[last.prng].hist) = 2
    /\ \E q \in 1..Len(prngs) :
          /\ q # last.prng
          /\ prngs[q].instance = prngs[last.prng].instance
          /\ prngs[q].handle # prngs[last.prng].handle
          /\ ~prngs[q].destroyed
          /\ Len(prngs[q].hist) = 1
          /\ SlotOf(instances, prngs[q]) # SlotOf(instances, prngs[last.prng])

\* C9: as long as no destroyed Prng is used, two Prng objects of the same
\* seed have returned the same results for as many of their calls as are
\* the same, wherever and however each was created
C9_Determinism ==
    ~staleUse =>
      \A p, q \in 1..Len(prngs) :
        prngs[p].seed = prngs[q].seed =>
          \A n \in 1..Len(prngs[p].hist) :
            (n <= Len(prngs[q].hist) /\ Calls(prngs[p].hist, n) = Calls(prngs[q].hist, n))
              => Results(prngs[p].hist, n) = Results(prngs[q].hist, n)

\* two Prng objects of the same seed, one returned by create in the first
\* pool and one by a resumed createAsync in the second, have each returned a
\* draw of the same kind, with the same result, and the first a further one
C9_Witness ==
    /\ ~staleUse
    /\ \E p, q \in 1..Len(prngs), t \in 1..Len(tasks) :
          /\ prngs[p].seed = prngs[q].seed
          /\ prngs[p].instance = 1
          /\ prngs[q].instance = 2
          /\ prngs[p].handle # prngs[q].handle
          /\ tasks[t].prng = q
          /\ Len(prngs[p].hist) = 2
          /\ Len(prngs[q].hist) = 1
          /\ Calls(prngs[p].hist, 1) = Calls(prngs[q].hist, 1)
          /\ Results(prngs[p].hist, 1) = Results(prngs[q].hist, 1)
          /\ Results(prngs[p].hist, 1)[1] # JsZero(8)


(***************************************************************************)
(* Properties of createAsync.                                              *)
(***************************************************************************)
\* the createAsync call t has returned a Prng whose handle is not negative
Completed(t) ==
    /\ t <= Len(tasks)
    /\ tasks[t].pc = "done"
    /\ prngs[tasks[t].prng].handle >= 0

\* C16: when every instantiation succeeds, a createAsync call that finds a
\* free slot returns at once, and one that has to await returns in the end,
\* in both cases a Prng with a non-negative handle to a slot that is
\* occupied when the call returns; however many calls are in flight and in
\* whatever order they are resumed
C16_AsyncCompletes ==
    /\ [][(last'.op \in {"createAsync", "resume"})
           => (/\ last'.err = ""
               /\ last'.prng = Len(prngs')
               /\ prngs'[last'.prng].handle >= 0
               /\ SlotOf(instances', prngs'[last'.prng]) # NULL)]_vars
    /\ [][(last'.op = "createAsync" /\ last' # last) => Len(prngs') = Len(prngs) + 1]_vars
    /\ \A t \in 1..LiveTasks :
          (t <= Len(tasks) /\ tasks[t].pc = "instantiating")
            ~> (Completed(t) /\ last.op = "resume" /\ last.task = t)

\* two calls were in flight together; the one resumed last has returned a
\* Prng in the pool it pushed, when an older pool had a free slot again
C16_Witness ==
    /\ last.op = "resume"
    /\ Completed(last.task)
    /\ ~tasks[last.task].alone
    /\ \A t \in 1..Len(tasks) : tasks[t].pc = "done"
    /\ prngs[last.prng].instance = Len(instances)
    /\ SlotOf(instances, prngs[last.prng]) # NULL
    /\ \E k \in 1..(Len(instances) - 1) : ~IsFull(instances[k])

\* the createAsync calls whose instantiation has resolved
Resolved == {t \in 1..Len(tasks) : tasks[t].pc \in {"instantiated", "done"}}

\* C17: a pool that createAsync has instantiated holds no generator until
\* the call pushes it, the step that returns the Prng is the step that
\* pushes the pool the Prng is in, and no Prng is ever in a pool that is not
\* in the registry; under every interleaving of the calls
C17_NoPoolLeaked ==
    /\ [](\A t \in 1..Len(tasks) :
            tasks[t].pc = "instantiated" => Occupied(tasks[t].newInst) = {})
    /\ [](\A p \in 1..Len(prngs) : prngs[p].instance \in 1..Len(instances))
    /\ [](Len(instances) = 1 + Cardinality({t \in Resolved : tasks[t].pc = "done"}))
    /\ [][(last'.op = "resume" /\ last' # last)
           => (/\ instances' = Append(instances, instances'[Len(instances')])
               /\ last'.err = ""
               /\ prngs'[last'.prng].instance = Len(instances')
               /\ SlotOf(instances', prngs'[last'.prng]) # NULL
               /\ Occupied(instances'[Len(instances')]) = {prngs'[last'.prng].handle})]_vars

\* two calls were in flight together and both have returned: the registry
\* has three pools, and each of the two Prng objects is in the pool its call
\* pushed
C17_Witness ==
    /\ Len(instances) = 3
    /\ \E t, u \in 1..Len(tasks) :
          /\ t # u
          /\ ~tasks[u].alone
          /\ tasks[t].pc = "done"
          /\ tasks[u].pc = "done"
          /\ prngs[tasks[t].prng].instance # prngs[tasks[u].prng].instance
          /\ prngs[tasks[t].prng].instance > 1
          /\ prngs[tasks[u].prng].instance > 1
          /\ SlotOf(instances, prngs[tasks[t].prng]) # NULL
          /\ SlotOf(instances, prngs[tasks[u].prng]) # NULL

\* the steps of a createAsync call that awaits: it is suspended once, its
\* instantiation resolves or rejects, and it resumes once
TaskSteps ==
    {<<"instantiating", "instantiated">>, <<"instantiating", "failed">>,
     <<"instantiated", "done">>, <<"instantiated", "failed">>}

\* C18: a createAsync call is suspended at most once and instantiates at
\* most one pool (a call in flight only moves from awaiting to resolved to
\* returned, the pool it was given never changes before the push, and the
\* registry grows by one pool, at the resumption of a call); a call made
\* when some pool has a free slot returns at once with a slot of the first
\* such pool and leaves the registry's length and the calls in flight alone
C18_AtMostOneInstantiation ==
    /\ [][/\ Len(tasks') >= Len(tasks)
          /\ \A t \in 1..Len(tasks) :
               /\ tasks'[t].pc # tasks[t].pc => <<tasks[t].pc, tasks'[t].pc>> \in TaskSteps
               /\ (tasks[t].pc = "instantiated" /\ tasks'[t].pc = "instantiated")
                    => tasks'[t].newInst = tasks[t].newInst
          /\ Len(instances') # Len(instances)
               => (/\ Len(instances') = Len(instances) + 1
                   /\ last'.op = "resume"
                   /\ tasks[last'.task].pc = "instantiated"
                   /\ tasks'[last'.task].pc \in {"done", "failed"})]_vars
    /\ [][(last'.op \in {"createAsync", "await"} /\ last' # last /\ ~AllFull(instances))
           => (/\ last'.op = "createAsync"
               /\ last'.err = ""
               /\ tasks' = tasks
               /\ Len(instances') = Len(instances)
               /\ Len(prngs') = Len(prngs) + 1
               /\ ~IsFull(instances[prngs'[last'.prng].instance])
               /\ \A k \in 1..(prngs'[last'.prng].instance - 1) : IsFull(instances[k])
               /\ SlotOf(instances, prngs'[last'.prng]) = NULL
               /\ SlotOf(instances', prngs'[last'.prng]) # NULL)]_vars
    /\ [][(last'.op \in {"createAsync", "await"} /\ last' # last /\ AllFull(instances))
           => (/\ last'.op = "await"
               /\ Len(tasks') = Len(tasks) + 1
               /\ tasks'[Len(tasks')].pc = "instantiating"
               /\ instances' = instances
               /\ prngs' = prngs)]_vars

\* a createAsync call has returned at once with the free slot of the second
\* pool, which an earlier call had pushed, the first pool being full
C18_Witness ==
    /\ last.op = "createAsync"
    /\ last.err = ""
    /\ prngs[last.prng].instance = 2
    /\ IsFull(instances[1])
    /\ Len(instances) = 2
    /\ \E t \in 1..Len(tasks) : tasks[t].pc = "done"

\* the slots of pool k that hold in `after` something else than in `before`
ChangedSlots(before, after, k) ==
    {i \in DOMAIN before[k] : after[k][i] # before[k][i]}

\* C19: the registry starts with one pool; a step of create, createAsync, a
\* draw or destroy leaves every pool at its position, changes at most one
\* slot of at most one of them, and at most appends one pool at the end;
\* no Prng comes to refer to another pool or slot; a pool all of whose
\* slots are released stays
C19_AppendOnly ==
    /\ Len(instances) = 1
    /\ [][/\ Len(instances') \in {Len(instances), Len(instances) + 1}
          /\ \A k \in 1..Len(instances) :
               /\ DOMAIN instances'[k] = DOMAIN instances[k]
               /\ Cardinality(ChangedSlots(instances, instances', k)) <= 1
               /\ \A j \in 1..Len(instances) :
                    (j # k /\ ChangedSlots(instances, instances', k) # {})
                      => ChangedSlots(instances, instances', j) = {}
          /\ Len(prngs') >= Len(prngs)
          /\ \A p \in 1..Len(prngs) :
               /\ prngs'[p].instance = prngs[p].instance
               /\ prngs'[p].handle = prngs[p].handle
          /\ (last'.op \in {"destroy", "nextU64", "nextF64", "nextU32Range", "create",
                            "createAsync", "await", "instantiated"})
               => Len(instances') = Len(instances)]_vars

\* the registry has two pools, the second of which has just lost its only
\* generator to a destroy, while the first still holds one
C19_Witness ==
    /\ last.op = "destroy"
    /\ Len(instances) = 2
    /\ prngs[last.prng].instance = 2
    /\ Occupied(instances[2]) = {}
    /\ Occupied(instances[1]) # {}
    /\ \E p \in 1..Len(prngs) : Len(prngs[p].hist) > 0

(***************************************************************************)
(* Properties of the derived values, on one pool.                          *)
(***************************************************************************)
\* the call recorded in `last` was made on a slot that held a generator
OnLive(call) == Live(instances[1], call.handle)

\* C11: nextU32Range of the pool, called with the handle of a live generator
\* and u32 arguments min <= max (0 and 2^32 - 1 included), returns without a
\* trap a u32 v with min <= v <= max
C11_RangeContainment ==
    [][(/\ last'.op = "nextU32Range"
        /\ OnLive(last')
        /\ LessEq(last'.min, last'.max))
       => (/\ last'.err = ""
           /\ LessEq(last'.min, last'.ret)
           /\ LessEq(last'.ret, last'.max))]_vars

\* a call over the range 10..20 on a live generator whose first word the
\* reduction rejected: the call left the generator two words on
C11_Witness ==
    /\ last.op = "nextU32Range"
    /\ Live(instances[1], last.handle)
    /\ last.min = FromNat(10, 4)
    /\ last.max = FromNat(20, 4)
    /\ last.err = ""
    /\ instances[1][last.handle] =
          Xoshiro256_next(Xoshiro256_next(StateYielding(<<0, 0, 0, 0, 1, 0, 0, 0>>)).st).st

\* C13: nextU32Range of the pool, called with the handle of a live generator
\* and min > max, returns min, raises no error and leaves every slot, the
\* generator's included, as it was
C13_InvalidRange ==
    [][(/\ last'.op = "nextU32Range"
        /\ Live(instances[1], last'.handle)
        /\ Less(last'.max, last'.min))
       => (/\ last'.err = ""
           /\ last'.ret = last'.min
           /\ instances' = instances)]_vars

\* C14: nextU32Range of the pool, called with the handle of a live generator
\* and min = max, returns min without a trap, whatever u32 min is and
\* whatever state the generator is in
C14_SingletonRange ==
    [][(/\ last'.op = "nextU32Range"
        /\ Live(instances[1], last'.handle)
        /\ last'.min = last'.max)
       => (last'.err = "" /\ last'.ret = last'.min)]_vars

\* a call with min = max = 2^31 on a generator whose next word was 2^64 - 1:
\* 2^31 was returned and the generator is one word on
C14_Witness ==
    /\ last.op = "nextU32Range"
    /\ Live(instances[1], last.handle)
    /\ last.min = <<0, 0, 0, 128>>
    /\ last.max = <<0, 0, 0, 128>>
    /\ last.ret = <<0, 0, 0, 128>>
    /\ last.err = ""
    /\ instances[1][last.handle] = Xoshiro256_next(StateYielding(Not(Zero(8)))).st

\* the IEEE-754 bits of 1.0
F64One == <<0, 0, 0, 0, 0, 0, 240, 63>>

C21_StarStarStep ==
    [][(last'.op = "nextU64" /\ Live(instances[1], last'.handle))
       => LET Stepped(s0, s1, b2, b3) ==
                <<Xor(s0, b3), Xor(s1, b2), Xor(b2, Shl(s1, 17)), Rotl(b3, 45)>>
              Claimed(s) ==
                /\ last'.ret = Mul(Rotl(Mul(s[2], FromNat(5, 8)), 7), FromNat(9, 8))
                /\ instances'[1][last'.handle]
                     = Stepped(s[1], s[2], Xor(s[3], s[1]), Xor(s[4], s[2]))
          IN  Claimed(instances[1][last'.handle])]_vars

(***************************************************************************)
(* Properties of the exports, on one pool of MAX_INSTANCES slots.          *)
(***************************************************************************)
\* C22: create of the pool returns -1 exactly when all 256 slots are
\* occupied, and then changes no slot; otherwise it returns the lowest
\* index of an empty slot, that slot holds the generator of the seed
\* afterwards and no other slot has changed
C22_CreateLowestFree ==
    [][(last'.op = "create" /\ last' # last)
       => /\ slots = 256
          /\ DOMAIN instances[1] = 0..255
          /\ (last'.ret = -1) <=> (Occupied(instances[1]) = 0..255)
          /\ last'.ret = -1 => instances' = instances
          /\ last'.ret # -1 =>
               /\ last'.ret \in 0..255
               /\ instances[1][last'.ret] = NULL
               /\ \A j \in 0..(last'.ret - 1) : instances[1][j] # NULL
               /\ instances'[1][last'.ret] = DefaultPrng_init(last'.s)
               /\ ChangedSlots(instances, instances', 1) = {last'.ret}]_vars

\* create on a pool whose only empty slot was slot 100 returned 100, and on
\* one whose only empty slots were 7 and 200 returned 7
C22_Witness ==
    /\ last.op = "create"
    /\ \/ last.ret = 100 /\ Occupied(instances[1]) = 0..255
       \/ last.ret = 7 /\ Occupied(instances[1]) = (0..255) \ {200}

\* C23: destroy of the pool never traps; with a handle that is negative,
\* 256 or more, or that of an empty slot it changes no slot, and with a
\* handle in 0..255 it changes no slot but that one, which is empty
\* afterwards
C23_DestroyIgnoresBadHandles ==
    [][(last'.op = "destroy" /\ last' # last)
       => /\ last'.err = ""
          /\ (\/ last'.handle < 0
              \/ last'.handle >= 256
              \/ instances[1][last'.handle] = NULL) => instances' = instances
          /\ last'.handle \in 0..255 =>
               /\ ChangedSlots(instances, instances', 1) \subseteq {last'.handle}
               /\ instances'[1][last'.handle] = NULL]_vars

\* destroy was called with the handle 256 on a full pool, which is still
\* full
C23_Witness ==
    /\ last.op = "destroy"
    /\ last.handle = MAX_INSTANCES
    /\ Occupied(instances[1]) = 0..(MAX_INSTANCES - 1)

\* C24: a draw of the pool with a handle that is negative, 256 or more, or
\* that of an empty slot does not trap, returns 0 (nextU64), 0.0 (nextF64)
\* or min (nextU32Range, whether min <= max or not) and changes no slot
C24_DrawDefaults ==
    [][(/\ IsDraw(last'.op)
        /\ last' # last
        /\ \/ last'.handle < 0
           \/ last'.handle >= 256
           \/ instances[1][last'.handle] = NULL)
       => /\ last'.err = ""
          /\ last'.op = "nextU64" => last'.ret = Zero(8)
          /\ last'.op = "nextF64" => last'.ret = Zero(8)
          /\ last'.op = "nextU32Range" => last'.ret = last'.min
          /\ instances' = instances]_vars

\* nextU32Range was called with the handle -1, min = 2^32 - 1 and max = 0 on
\* a full pool and returned 2^32 - 1
C24_Witness ==
    /\ last.op = "nextU32Range"
    /\ last.handle = -1
    /\ last.min = MaxU32
    /\ last.max = Zero(4)
    /\ last.ret = MaxU32
    /\ last.err = ""
    /\ Occupied(instances[1]) = 0..(MAX_INSTANCES - 1)

\* C26: when the instantiation of a createAsync call rejects, the call
\* fails with that rejection and is never continued (no retry, no Prng);
\* the step appends no pool, changes no slot of any pool and no Prng, and
\* leaves every other createAsync call as it was; the scan that call made
\* before its await changed no slot either.
C26_RejectionIsFatal ==
    [][/\ \A t \in 1..Len(tasks) :
            (tasks[t].pc = "instantiating" /\ last'.op = "reject" /\ last'.task = t)
            => /\ last'.err = InstantiateFailed
               /\ tasks'[t].pc = "failed"
               /\ tasks'[t].prng = 0
               /\ instances' = instances
               /\ prngs' = prngs
               /\ Len(tasks') = Len(tasks)
               /\ \A u \in 1..Len(tasks) : u # t => tasks'[u] = tasks[u]
       /\ \A t \in 1..Len(tasks) :
            tasks[t].pc = "failed" => Len(tasks') >= t /\ tasks'[t] = tasks[t]
       /\ (last'.op = "await" /\ Len(tasks') = Len(tasks) + 1)
            => instances' = instances]_vars

\* a rejection while another createAsync call holds its instantiated pool,
\* not yet pushed
C26_Witness ==
    /\ last.op = "reject"
    /\ tasks[last.task].pc = "failed"
    /\ \E u \in 1..Len(tasks) : tasks[u].pc = "instantiated" /\ tasks[u].newInst = EmptyPool
    /\ Len(instances) = 1
    /\ IsFull(instances[1])

\* the pools a scan can come upon are whole: every slot is there, empty or
\* holding the four words of a generator
Constructed(pool) ==
    /\ DOMAIN pool = 0..(slots - 1)
    /\ \A i \in DOMAIN pool : pool[i] = NULL \/ Len(pool[i]) = 4

\* C27: the registry grows only in the continuation of a createAsync call
\* whose instantiation has completed, the pool appended is the one that
\* instantiation delivered and all its slots are empty at that moment (the
\* one slot occupied after the step is the one the same continuation takes);
\* a call still awaiting holds no pool; and in every state, hence at every
\* point where a create or createAsync can scan, every pool of the registry
\* is fully constructed.
C27_AtomicAppend ==
    /\ [](\A k \in 1..Len(instances) : Constructed(instances[k]))
    /\ [](\A t \in 1..Len(tasks) :
            /\ tasks[t].pc = "instantiating" => tasks[t].newInst = NULL
            /\ tasks[t].pc = "instantiated" => tasks[t].newInst = EmptyPool)
    /\ [][Len(instances') > Len(instances)
           => (/\ last'.op = "resume"
               /\ tasks[last'.task].pc = "instantiated"
               /\ Constructed(tasks[last'.task].newInst)
               /\ Occupied(tasks[last'.task].newInst) = {}
               /\ SubSeq(instances', 1, Len(instances)) = instances
               /\ \A i \in 0..(slots - 1) :
                    instances'[Len(instances')][i] # tasks[last'.task].newInst[i]
                      => (last'.prng > 0 /\ i = prngs'[last'.prng].handle))]_vars
    /\ [][(last'.op \in {"create", "createAsync", "await"} /\ last' # last)
           => (/\ \A k \in 1..Len(instances) : Constructed(instances[k])
               /\ Len(instances') = Len(instances))]_vars

\* a pool has just been appended by one createAsync call while another is
\* still awaiting its instantiation
C27_Witness ==
    /\ last.op = "resume"
    /\ Len(instances) = 2
    /\ Occupied(instances[2]) = {0}
    /\ tasks[last.task].pc = "done"
    /\ \E u \in 1..Len(tasks) : tasks[u].pc = "instantiating" /\ tasks[u].newInst = NULL

\* the Prng objects on which destroy() has not been called
Undestroyed == {p \in 1..Len(prngs) : ~prngs[p].destroyed}

\* C28: as long as no Prng has been destroyed a second time, in every
\* state, whatever createAsync calls are in flight, no two Prng objects
\* that have not been destroyed hold the same pool and slot, and the slot
\* of each of them is occupied.
C28_SlotExclusivity ==
    ~staleUse =>
        /\ \A p, q \in Undestroyed :
              (prngs[p].instance = prngs[q].instance /\ prngs[p].handle = prngs[q].handle)
                => p = q
        /\ \A p \in Undestroyed :
              /\ prngs[p].instance \in 1..Len(instances)
              /\ prngs[p].handle \in 0..(slots - 1)
              /\ SlotOf(instances, prngs[p]) # NULL

\* a slot released by one Prng has gone to a later one, a second pool holds
\* a generator as well, and nothing was destroyed twice
C28_Witness ==
    /\ ~staleUse
    /\ Len(instances) = 2
    /\ \E p, q, r \in 1..Len(prngs) :
          /\ prngs[p].destroyed
          /\ q \in Undestroyed
          /\ r \in Undestroyed
          /\ prngs[p].instance = prngs[q].instance
          /\ prngs[p].handle = prngs[q].handle
          /\ prngs[r].instance = 2
          /\ SlotOf(instances, prngs[q]) # NULL
          /\ SlotOf(instances, prngs[r]) # NULL

\* C29: the throw "Failed to create PRNG instance in new WASM module" is
\* never reached: whatever create, createAsync and destroy calls are
\* interleaved, no call ends with that error, and every continuation of a
\* createAsync call returns a Prng whose handle is 0 and whose pool is the
\* one just appended, slot 0 of which was empty before and is occupied
\* after.
C29_NewModuleNeverFails ==
    /\ [](last.err # NewModuleFailed)
    /\ [](\A t \in 1..Len(tasks) :
            tasks[t].pc = "failed" => (tasks[t].newInst = NULL /\ tasks[t].prng = 0))
    /\ [][\A t \in 1..Len(tasks) :
            (tasks[t].pc = "instantiated" /\ tasks'[t].pc # "instantiated")
            => (/\ tasks'[t].pc = "done"
                /\ last'.op = "resume"
                /\ last'.err = ""
                /\ Len(instances') = Len(instances) + 1
                /\ Len(prngs') = Len(prngs) + 1
                /\ tasks'[t].prng = Len(prngs')
                /\ prngs'[Len(prngs')].handle = 0
                /\ prngs'[Len(prngs')].instance = Len(instances')
                /\ tasks[t].newInst[0] = NULL
                /\ instances'[Len(instances')][0] # NULL)]_vars

\* the second of two overlapping createAsync calls has resumed after a
\* destroy had freed a slot of an older pool: it still got slot 0 of the
\* third pool, which it pushed
C29_Witness ==
    /\ last.op = "resume"
    /\ last.err = ""
    /\ Len(instances) = 3
    /\ prngs[last.prng].instance = 3
    /\ prngs[last.prng].handle = 0
    /\ ~IsFull(instances[1])
    /\ \E p \in 1..Len(prngs) : prngs[p].destroyed /\ prngs[p].instance = 1
    /\ \A t \in 1..Len(tasks) : ~tasks[t].alone => tasks[t].pc = "done"
    /\ \E t \in 1..Len(tasks) : ~tasks[t].alone

(***************************************************************************)
(* Properties of the registry at the capacity of the build                 *)
(***************************************************************************)
\* C25: in every reachable state each pool, in the registry or still held
\* by a createAsync call, has exactly 256 slots, of which at most 256 are
\* occupied; every Prng object holds a handle in 0..255 and a pool of the
\* registry, so none was constructed from the sentinel -1; and a create,
\* createAsync or resumption that constructed no Prng ended in an error or
\* in the await for a new pool.
C25_CapacityInvariant ==
    /\ \A k \in 1..Len(instances) :
          /\ DOMAIN instances[k] = 0..255
          /\ Cardinality(Occupied(instances[k])) <= 256
    /\ \A t \in 1..Len(tasks) :
          tasks[t].newInst # NULL => DOMAIN tasks[t].newInst = 0..255
    /\ \A p \in 1..Len(prngs) :
          /\ prngs[p].handle \in 0..255
          /\ prngs[p].handle # -1
          /\ prngs[p].instance \in 1..Len(instances)
    /\ last.op \in {"create", "createAsync", "await", "resume"}
         => \/ last.prng = Len(prngs) /\ last.prng > 0 /\ last.err = ""
            \/ last.prng = 0 /\ last.op = "create" /\ last.err = NoCapacity
            \/ last.prng = 0 /\ last.op = "await" /\ last.err = ""
                 /\ tasks[last.task].pc = "instantiating"
            \/ last.prng = 0 /\ last.op = "resume" /\ last.err = NewModuleFailed

\* a create that found the first pool full, all 256 slots, and took slot 1
\* of the second
C25_Witness ==
    /\ Len(instances) = 2
    /\ Cardinality(Occupied(instances[1])) = 256
    /\ last.op = "create"
    /\ last.prng > 0
    /\ prngs[last.prng].instance = 2
    /\ prngs[last.prng].handle = 1
    /\ \E p \in 1..Len(prngs) : prngs[p].instance = 1 /\ prngs[p].handle = 255

(***************************************************************************)
(* Properties of the values JavaScript passes and reads.                   *)
(***************************************************************************)
\* a < b for JavaScript integers, none of them -0
JsLess(a, b) ==
    IF a.neg # b.neg THEN a.neg
    ELSE IF a.neg THEN Less(Extend(b.mag, JsBytes), Extend(a.mag, JsBytes))
    ELSE Less(Extend(a.mag, JsBytes), Extend(b.mag, JsBytes))

JsLessEq(a, b) == ~JsLess(b, a)

\* C12: the number Prng.nextU32Range(min, max) returns for integers
\* 0 <= min <= max <= 2^32 - 1 is a non-negative integer v with
\* min <= v <= max, also when the range lies above 2^31 - 1
C12_UnsignedResult ==
    \A p \in 1..Len(prngs) : \A i \in 1..Len(prngs[p].hist) :
      (prngs[p].hist[i].fn = "nextU32Range" /\ prngs[p].hist[i].err = "")
        => (/\ ~prngs[p].hist[i].ret.neg
            /\ JsLessEq(prngs[p].hist[i].min, prngs[p].hist[i].ret)
            /\ JsLessEq(prngs[p].hist[i].ret, prngs[p].hist[i].max))

\* a = b modulo 2^64 for JavaScript integers: with equal signs the
\* magnitudes agree in their low 64 bits, with different signs the low 64
\* bits of their sum are 0
Congruent(a, b) ==
    IF a.neg = b.neg THEN Extend(a.mag, 8) = Extend(b.mag, 8)
    ELSE Extend(Add(Extend(a.mag, JsBytes + 1), Extend(b.mag, JsBytes + 1)), 8) = Zero(8)

\* C20: two Prng objects whose seeds are congruent modulo 2^64 have returned
\* the same results for as many of their calls as are the same; a Prng of
\* seed -1 starts in the state of the seed 2^64 - 1 and one of seed
\* 42 - 2^64 in that of 42; and create with a free slot in the registry
\* does not fail, whatever the seed
C20_SeedNormalization ==
    /\ \A p, q \in 1..Len(prngs) :
         Congruent(prngs[p].seed, prngs[q].seed) =>
           \A n \in 1..Len(prngs[p].hist) :
             (n <= Len(prngs[q].hist) /\ Calls(prngs[p].hist, n) = Calls(prngs[q].hist, n))
               => Results(prngs[p].hist, n) = Results(prngs[q].hist, n)
    /\ \A p \in 1..Len(prngs) :
         (prngs[p].hist = <<>> /\ prngs[p].seed.neg)
           => SlotOf(instances, prngs[p])
                = DefaultPrng_init(IF prngs[p].seed = JsInt(-1) THEN Not(Zero(8))
                                   ELSE FromNat(42, 8))
    /\ (last.op = "create" /\ last.occ < slots * Len(instances))
         => (last.err = "" /\ last.prng = Len(prngs))

\* a Prng of seed -1 and one of seed 2^64 - 1 have each returned one
\* nextU64, the same value
C20_Witness ==
    \E p, q \in 1..Len(prngs) :
      /\ prngs[p].seed = JsInt(-1)
      /\ prngs[q].seed = JsWord(Not(Zero(8)))
      /\ Len(prngs[p].hist) = 1
      /\ Len(prngs[q].hist) = 1
      /\ prngs[p].hist[1].fn = "nextU64"
      /\ prngs[q].hist[1].fn = "nextU64"
      /\ prngs[p].hist[1].ret = prngs[q].hist[1].ret
      /\ prngs[p].hist[1].ret # JsZero(8)
=============================================================================
